---- MODULE Spec2Model ----
(***************************************************************************)
(* The real-time training monitor of src/training_monitor.py: the          *)
(* TrainingMonitor object (its training_data dictionary), the four         *)
(* producer calls, the socket.io connect/disconnect handlers and the       *)
(* events they emit.                                                       *)
(***************************************************************************)
EXTENDS Integers, Sequences, FiniteSets, TLC

\* ------------------------------------------------------------------ bounds
\* Producer calls explored by the general specification.
MaxCalls == 3
\* Largest value the wall clock reaches.
MaxClock == 1
\* Log lines a producer of the log-path specification writes after a reset.
MaxLines == 102
\* Metric updates a producer of the metric-path specification makes per series.
MaxPoints == 101
\* Producer calls the threads of the threads specification make.
MaxThreadCalls == 2
\* Metric updates a producer of the series specification makes in all.
MaxTicks == 103
\* Learning rates it supplies per session.
MaxRates == 1
\* A session of the metric-path specification may be restarted while it has
\* made at most this many updates per series.
MaxRestartAt == 1

\* ------------------------------------------------------- program constants
\* "Keep only last 100 logs"
LogCap == 100
\* "Keep only last 100 points"
MetricCap == 100

VARIABLES
    training_data,  \* self.training_data
    viewers,        \* the socket.io clients connected to the server
    emitted,        \* the events emitted by the most recent handler, in order
    clock,          \* the latest reading of datetime.now() / time.time()
    call,           \* the most recent handler invocation and its outcome
    appended,       \* history: the entries add_log built since logs was last reset
    supplied,       \* history: the losses passed to update_training_status since the last start
    updated,        \* history: status/epoch/step left by the latest update_training_status
    ncalls,         \* producer calls made so far (bounds the general specification)
    response,       \* what the most recent step returned to an HTTP client, if it was a request
    threads,        \* the producer call each thread is in the middle of
    overlap,        \* history: the calls begun since no call was last in progress
    views           \* history: what each viewer holds, built from what it was sent

vars == <<training_data, viewers, emitted, clock, call, appended, supplied, updated, ncalls,
          response, threads, overlap, views>>

\* ------------------------------------------------------------ input values
Viewers == {"v1", "v2"}
\* (model_name, total_epochs, dataset_size, batch_size): the integrated demo's
\* session, a batch larger than the dataset, no epochs, and an empty batch.
SessionArgs ==
    { <<"demo", 3, 500, 16>>, <<"demo", 3, 10, 16>>, <<"demo", 0, 500, 16>>,
      <<"demo", 3, 500, 0>> }
Messages == {"hello"}
\* add_log is called with an explicit level or without one.
NoLevel == [k \in {} |-> 0]
LevelArgs == {NoLevel, [level |-> "error"]}
NoKwargs == [k \in {} |-> 0]
\* (status, kwargs) of an update_training_status call.
UpdateArgs ==
    { <<"training", NoKwargs>>,
      <<"failed", NoKwargs>>,
      <<"training", [bogusField |-> 42]>>,
      <<"training", [current_epoch |-> 1, current_step |-> 5]>>,
      <<"training", [loss |-> 18, learning_rate |-> 1]>>,
      <<"failed", [total_steps |-> 7, elapsed_time |-> 4]>> }

\* -------------------------------------------------------------- the object
\* TrainingMonitor.__init__: the training state.
InitialData ==
    [ status              |-> "idle",
      current_epoch       |-> 0,
      total_epochs        |-> 0,
      current_step        |-> 0,
      total_steps         |-> 0,
      loss                |-> 0,
      learning_rate       |-> 0,
      elapsed_time        |-> 0,
      estimated_remaining |-> 0,
      model_name          |-> "",
      dataset_size        |-> 0,
      batch_size          |-> 0,
      logs                |-> <<>>,
      metrics_history     |-> [loss |-> <<>>, learning_rate |-> <<>>, timestamps |-> <<>>] ]

\* dict.update(other) and d[key] = value: keys are added or overwritten.
dict_update(d, other) ==
    [k \in DOMAIN d \cup DOMAIN other |-> IF k \in DOMAIN other THEN other[k] ELSE d[k]]

dict_set(d, key, value) ==
    [k \in DOMAIN d \cup {key} |-> IF k = key THEN value ELSE d[k]]

\* socketio.emit(event, payload) / emit(event, payload): one event, serialised
\* when it is emitted, for the recipients `to`.
socketio_emit(out, event, payload, to) ==
    Append(out, [event |-> event, data |-> payload, to |-> to])

\* ------------------------------------------------- update_training_status
\* Mutant: the loop stores every keyword, without the membership test.
update_fields_any_key(d, kwargs) ==
    [k \in DOMAIN d \cup DOMAIN kwargs |-> IF k \in DOMAIN kwargs THEN kwargs[k] ELSE d[k]]

\* for key, value in kwargs.items(): if key in self.training_data: ...
update_fields(d, kwargs) ==
    [k \in DOMAIN d |-> IF k \in DOMAIN kwargs THEN kwargs[k] ELSE d[k]]

\* Mutant: the cap test reads >= where the code reads >.
record_loss_evict_at_cap(mh, loss, now) ==
    LET added == [mh EXCEPT !.loss = Append(@, loss),
                            !.timestamps = Append(@, now)]
    IN  IF Len(added.loss) >= MetricCap
        THEN [added EXCEPT !.loss = Tail(@), !.timestamps = Tail(@)]
        ELSE added

\* if 'loss' in kwargs: append the loss and its timestamp, keep the last 100.
\* Mutant: the timestamps.pop(0) of line 96 is missing.
record_loss_keeping_timestamps(mh, loss, now) ==
    LET l == Append(mh.loss, loss)
        t == Append(mh.timestamps, now)
    IN  IF Len(l) > MetricCap
        THEN [mh EXCEPT !.loss = Tail(l), !.timestamps = t]
        ELSE [mh EXCEPT !.loss = l, !.timestamps = t]

record_loss(mh, loss, now) ==
    LET added == [mh EXCEPT !.loss = Append(@, loss),
                            !.timestamps = Append(@, now)]
    IN  IF Len(added.loss) > MetricCap
        THEN [added EXCEPT !.loss = Tail(@), !.timestamps = Tail(@)]
        ELSE added

\* if 'learning_rate' in kwargs: append it.
record_learning_rate(mh, learning_rate) ==
    [mh EXCEPT !.learning_rate = Append(@, learning_rate)]

\* Mutant: the broadcast is made before the metric history is written.
update_training_status_early_emit(m, status, kwargs, t1, t2, conns) ==
    LET d1 == [m.data EXCEPT !.status = status]
        d2 == update_fields(d1, kwargs)
        d3 == dict_set(d2, "last_update", t1)
        d4 == IF "loss" \in DOMAIN kwargs
              THEN [d3 EXCEPT !.metrics_history = record_loss(@, kwargs.loss, t2)]
              ELSE d3
        d5 == IF "learning_rate" \in DOMAIN kwargs
              THEN [d4 EXCEPT !.metrics_history =
                                  record_learning_rate(@, kwargs.learning_rate)]
              ELSE d4
    IN  [data |-> d5, out |-> socketio_emit(m.out, "status_update", d3, conns)]

\* m is [data, out]: the dictionary and the events emitted so far by the
\* running handler; t1 and t2 are the two readings of datetime.now().
update_training_status(m, status, kwargs, t1, t2, conns) ==
    LET d1 == [m.data EXCEPT !.status = status]
        d2 == update_fields(d1, kwargs)
        d3 == dict_set(d2, "last_update", t1)
        d4 == IF "loss" \in DOMAIN kwargs
              THEN [d3 EXCEPT !.metrics_history = record_loss(@, kwargs.loss, t2)]
              ELSE d3
        d5 == IF "learning_rate" \in DOMAIN kwargs
              THEN [d4 EXCEPT !.metrics_history =
                                  record_learning_rate(@, kwargs.learning_rate)]
              ELSE d4
    IN  [data |-> d5, out |-> socketio_emit(m.out, "status_update", d5, conns)]

\* ---------------------------------------------------------------- add_log
\* def add_log(self, message, level='info')
level_of(args) == IF "level" \in DOMAIN args THEN args.level ELSE "info"

log_entry(message, level, now) ==
    [timestamp |-> now, level |-> level, message |-> message]

\* Mutant: pop() where the code reads pop(0): the newest entry is dropped.
keep_logs_drop_newest(logs, entry) ==
    LET added == Append(logs, entry)
    IN  IF Len(added) > LogCap THEN SubSeq(added, 1, Len(added) - 1) ELSE added

\* append, then "keep only last 100 logs".
keep_logs(logs, entry) ==
    LET added == Append(logs, entry)
    IN  IF Len(added) > LogCap THEN Tail(added) ELSE added

\* Mutant: the emit sits in an else branch of the cap test, so that an append
\* that evicts an entry is not broadcast.
add_log_silent_eviction(m, message, level, now, conns) ==
    LET entry == log_entry(message, level, now)
    IN  [data |-> [m.data EXCEPT !.logs = keep_logs(@, entry)],
         out  |-> IF Len(m.data.logs) >= LogCap
                  THEN m.out
                  ELSE socketio_emit(m.out, "log_update", entry, conns)]

\* Mutant: the call also stamps last_update.
add_log_stamping_last_update(m, message, level, now, conns) ==
    LET entry == log_entry(message, level, now)
        data  == [m.data EXCEPT !.logs = keep_logs(@, entry)]
    IN  [data |-> dict_set(data, "last_update", now),
         out  |-> socketio_emit(m.out, "log_update", entry, conns)]

add_log(m, message, level, now, conns) ==
    LET entry == log_entry(message, level, now)
    IN  [data |-> [m.data EXCEPT !.logs = keep_logs(@, entry)],
         out  |-> socketio_emit(m.out, "log_update", entry, conns)]

\* ------------------------------------------------- start_training_session
\* Mutant: the product is taken before the division.
total_steps_late_division(dataset_size, batch_size, total_epochs) ==
    (dataset_size * total_epochs) \div batch_size

total_steps(dataset_size, batch_size, total_epochs) ==
    (dataset_size \div batch_size) * total_epochs

start_message(model_name) == "Starting training session for " \o model_name

totals_message(total_epochs, dataset_size, batch_size) ==
    "Total epochs: " \o ToString(total_epochs)
        \o ", Dataset size: " \o ToString(dataset_size)
        \o ", Batch size: " \o ToString(batch_size)

\* Mutant: the 'logs' and 'metrics_history' entries are missing from the update.
session_fields_keeping_history(model_name, total_epochs, dataset_size, batch_size, t0) ==
    [ status          |-> "starting",
      model_name      |-> model_name,
      total_epochs    |-> total_epochs,
      dataset_size    |-> dataset_size,
      batch_size      |-> batch_size,
      current_epoch   |-> 0,
      current_step    |-> 0,
      total_steps     |-> total_steps(dataset_size, batch_size, total_epochs),
      start_time      |-> t0 ]

session_fields(model_name, total_epochs, dataset_size, batch_size, t0) ==
    [ status          |-> "starting",
      model_name      |-> model_name,
      total_epochs    |-> total_epochs,
      dataset_size    |-> dataset_size,
      batch_size      |-> batch_size,
      current_epoch   |-> 0,
      current_step    |-> 0,
      total_steps     |-> total_steps(dataset_size, batch_size, total_epochs),
      start_time      |-> t0,
      logs            |-> <<>>,
      metrics_history |-> [loss |-> <<>>, learning_rate |-> <<>>, timestamps |-> <<>>] ]

\* Mutant: the two lines are logged in the other order.
start_training_session_totals_first(m, model_name, total_epochs, dataset_size, batch_size, t0, t1, t2, conns) ==
    LET m1 == [m EXCEPT !.data = dict_update(@,
                   session_fields(model_name, total_epochs, dataset_size, batch_size, t0))]
        m2 == add_log(m1, totals_message(total_epochs, dataset_size, batch_size),
                      "info", t1, conns)
    IN  add_log(m2, start_message(model_name), "info", t2, conns)

\* t0 is the reading of time.time(), t1 and t2 those of the two add_log calls.
start_training_session(m, model_name, total_epochs, dataset_size, batch_size, t0, t1, t2, conns) ==
    LET m1 == [m EXCEPT !.data = dict_update(@,
                   session_fields(model_name, total_epochs, dataset_size, batch_size, t0))]
        m2 == add_log(m1, start_message(model_name), "info", t1, conns)
    IN  add_log(m2, totals_message(total_epochs, dataset_size, batch_size),
                "info", t2, conns)

\* ------------------------------------------------ finish_training_session
finish_message == "Training session completed!"

\* Mutant: the terminal line is logged before the status is set.
finish_training_session_log_first(m, t1, t2, conns) ==
    LET m1 == add_log(m, finish_message, "info", t1, conns)
    IN  update_training_status(m1, "completed", NoKwargs, t2, t2, conns)

finish_training_session(m, t1, t2, conns) ==
    LET m1 == update_training_status(m, "completed", NoKwargs, t1, t1, conns)
    IN  add_log(m1, finish_message, "info", t2, conns)

\* ------------------------------------------------------------------- state
\* `updated` before any update_training_status call; `stale` tells that
\* start_training_session has run since the update that left the values.
NeverUpdated ==
    [valid |-> FALSE, stale |-> FALSE, status |-> "", current_epoch |-> 0, current_step |-> 0]

left_by_update(d) ==
    [valid |-> TRUE, stale |-> FALSE, status |-> d.status,
     current_epoch |-> d.current_epoch, current_step |-> d.current_step]

\* No HTTP request was answered by the step.
NoResponse == <<>>

\* The threads that call the monitor, and a thread that is in no call.
Threads == {"t1", "t2"}
Idle == [op |-> "idle"]

\* A viewer that was sent nothing.
NoView == [attached |-> FALSE]

Init ==
    /\ training_data = InitialData
    /\ viewers = {}
    /\ emitted = <<>>
    /\ clock = 0
    /\ call = [op |-> "__init__", args |-> <<>>, error |-> "none"]
    /\ appended = <<>>
    /\ supplied = <<>>
    /\ updated = NeverUpdated
    /\ ncalls = 0
    /\ response = NoResponse
    /\ threads = [t \in Threads |-> Idle]
    /\ overlap = [base |-> InitialData, calls |-> <<>>]
    /\ views = [v \in Viewers |-> NoView]

\* The handler starts with nothing emitted yet.
Entry == [data |-> training_data, out |-> <<>>]

\* A handler that runs from its first statement to its last with no other
\* thread in between, and answers no HTTP request.
Sequential ==
    /\ response' = NoResponse
    /\ UNCHANGED <<threads, overlap, views>>

\* ----------------------------------------------------------- handler calls
\* Mutant: the status is written before total_steps is computed.
CallStart_status_first(model_name, total_epochs, dataset_size, batch_size, t0, t1, t2) ==
    LET args == [model_name |-> model_name, total_epochs |-> total_epochs,
                 dataset_size |-> dataset_size, batch_size |-> batch_size]
    IN  IF batch_size = 0
        THEN /\ call' = [op |-> "start_training_session", args |-> args,
                         error |-> "ZeroDivisionError"]
             /\ training_data' = [training_data EXCEPT !.status = "starting"]
             /\ emitted' = <<>>
             /\ UNCHANGED <<viewers, clock, appended, supplied, updated>>
             /\ Sequential
        ELSE LET m == start_training_session(Entry, model_name, total_epochs,
                          dataset_size, batch_size, t0, t1, t2, viewers)
             IN  /\ training_data' = m.data
                 /\ emitted' = m.out
                 /\ clock' = t2
                 /\ call' = [op |-> "start_training_session", args |-> args,
                             error |-> "none"]
                 /\ appended' = << log_entry(start_message(model_name), "info", t1),
                                   log_entry(totals_message(total_epochs, dataset_size,
                                                            batch_size), "info", t2) >>
                 /\ supplied' = <<>>
                 /\ updated' = [updated EXCEPT !.stale = updated.valid]
                 /\ UNCHANGED viewers
                 /\ Sequential

\* monitor.start_training_session(model_name, total_epochs, dataset_size, batch_size)
CallStart(model_name, total_epochs, dataset_size, batch_size, t0, t1, t2) ==
    LET args == [model_name |-> model_name, total_epochs |-> total_epochs,
                 dataset_size |-> dataset_size, batch_size |-> batch_size]
    IN  IF batch_size = 0
        THEN \* dataset_size // batch_size raises before the dictionary is touched
             /\ call' = [op |-> "start_training_session", args |-> args,
                         error |-> "ZeroDivisionError"]
             /\ emitted' = <<>>
             /\ UNCHANGED <<training_data, viewers, clock, appended, supplied, updated>>
             /\ Sequential
        ELSE LET m == start_training_session(Entry, model_name, total_epochs,
                          dataset_size, batch_size, t0, t1, t2, viewers)
             IN  /\ training_data' = m.data
                 /\ emitted' = m.out
                 /\ clock' = t2
                 /\ call' = [op |-> "start_training_session", args |-> args,
                             error |-> "none"]
                 /\ appended' = << log_entry(start_message(model_name), "info", t1),
                                   log_entry(totals_message(total_epochs, dataset_size,
                                                            batch_size), "info", t2) >>
                 /\ supplied' = <<>>
                 /\ updated' = [updated EXCEPT !.stale = updated.valid]
                 /\ UNCHANGED viewers
                 /\ Sequential

\* monitor.update_training_status(status, **kwargs)
CallUpdate(status, kwargs, t1, t2) ==
    LET m == update_training_status(Entry, status, kwargs, t1, t2, viewers)
    IN  /\ training_data' = m.data
        /\ emitted' = m.out
        /\ clock' = t2
        /\ call' = [op |-> "update_training_status",
                    args |-> [status |-> status, kwargs |-> kwargs], error |-> "none"]
        /\ supplied' = IF "loss" \in DOMAIN kwargs
                       THEN Append(supplied, kwargs.loss) ELSE supplied
        /\ updated' = left_by_update(m.data)
        /\ UNCHANGED <<viewers, appended>>
        /\ Sequential

\* monitor.add_log(message) / monitor.add_log(message, level)
CallAddLog(message, levelArg, now) ==
    LET m == add_log(Entry, message, level_of(levelArg), now, viewers)
    IN  /\ training_data' = m.data
        /\ emitted' = m.out
        /\ clock' = now
        /\ call' = [op |-> "add_log",
                    args |-> [message |-> message, level |-> levelArg], error |-> "none"]
        /\ appended' = Append(appended, log_entry(message, level_of(levelArg), now))
        /\ UNCHANGED <<viewers, supplied, updated>>
        /\ Sequential

\* monitor.finish_training_session()
CallFinish(t1, t2) ==
    LET m == finish_training_session(Entry, t1, t2, viewers)
    IN  /\ training_data' = m.data
        /\ emitted' = m.out
        /\ clock' = t2
        /\ call' = [op |-> "finish_training_session", args |-> <<>>, error |-> "none"]
        /\ appended' = Append(appended, log_entry(finish_message, "info", t2))
        /\ updated' = left_by_update(update_training_status(Entry, "completed", NoKwargs,
                                                            t1, t1, viewers).data)
        /\ UNCHANGED <<viewers, supplied>>
        /\ Sequential

\* Mutant: the new client is sent the dictionary as it was constructed.
handle_connect_initial_snapshot(v) ==
    /\ v \notin viewers
    /\ viewers' = viewers \cup {v}
    /\ emitted' = socketio_emit(<<>>, "status_update", InitialData, {v})
    /\ call' = [op |-> "connect", args |-> [viewer |-> v], error |-> "none"]
    /\ UNCHANGED <<training_data, clock, appended, supplied, updated, ncalls>>
    /\ Sequential

\* @socketio.on('connect'): the new client alone is sent the dictionary.
handle_connect(v) ==
    /\ v \notin viewers
    /\ viewers' = viewers \cup {v}
    /\ emitted' = socketio_emit(<<>>, "status_update", training_data, {v})
    /\ call' = [op |-> "connect", args |-> [viewer |-> v], error |-> "none"]
    /\ UNCHANGED <<training_data, clock, appended, supplied, updated, ncalls>>
    /\ Sequential

\* Mutant: the handler looks the client up and raises for one it does not know.
handle_disconnect_known_only(v) ==
    /\ viewers' = viewers \ {v}
    /\ emitted' = <<>>
    /\ call' = [op |-> "disconnect", args |-> [viewer |-> v, attached |-> v \in viewers],
                error |-> IF v \in viewers THEN "none" ELSE "KeyError"]
    /\ UNCHANGED <<training_data, clock, appended, supplied, updated, ncalls>>
    /\ Sequential

\* @socketio.on('disconnect'): only logs, whoever the client is; the server
\* stops delivering to it.  `attached` tells whether it was connected.
handle_disconnect(v) ==
    /\ viewers' = viewers \ {v}
    /\ emitted' = <<>>
    /\ call' = [op |-> "disconnect", args |-> [viewer |-> v, attached |-> v \in viewers],
                error |-> "none"]
    /\ UNCHANGED <<training_data, clock, appended, supplied, updated, ncalls>>
    /\ Sequential

\* jsonify(d): the JSON object with the keys of d and their values.
jsonify(d) == [k \in DOMAIN d |-> d[k]]

\* Mutant: the route answers with the dictionary as it was constructed.
get_status_of_new_monitor(d) == jsonify(InitialData)

\* @app.route('/api/status'): return jsonify(self.training_data)
get_status(d) == jsonify(d)

\* Mutant: the route hands the log buffer out and empties it.
CallGetStatus_draining_logs ==
    /\ response' = get_status(training_data)
    /\ training_data' = [training_data EXCEPT !.logs = << >>]
    /\ emitted' = <<>>
    /\ call' = [op |-> "get_status", args |-> <<>>, error |-> "none"]
    /\ UNCHANGED <<viewers, clock, appended, supplied, updated, ncalls, threads, overlap,
                   views>>

\* GET /api/status
CallGetStatus ==
    /\ response' = get_status(training_data)
    /\ emitted' = <<>>
    /\ call' = [op |-> "get_status", args |-> <<>>, error |-> "none"]
    /\ UNCHANGED <<training_data, viewers, clock, appended, supplied, updated, ncalls,
                   threads, overlap, views>>

\* ------------------------------------------------ the general specification
\* Successive readings of the clock never go back.
Readings(t) == t..MaxClock

StartSession ==
    /\ ncalls < MaxCalls
    /\ \E a \in SessionArgs :
         \E t0 \in Readings(clock) : \E t1 \in Readings(t0) : \E t2 \in Readings(t1) :
            CallStart(a[1], a[2], a[3], a[4], t0, t1, t2)
    /\ ncalls' = ncalls + 1

UpdateStatus ==
    /\ ncalls < MaxCalls
    /\ \E a \in UpdateArgs :
         \E t1 \in Readings(clock) : \E t2 \in Readings(t1) :
            /\ ("loss" \notin DOMAIN a[2] => t2 = t1)
            /\ CallUpdate(a[1], a[2], t1, t2)
    /\ ncalls' = ncalls + 1

AddLog ==
    /\ ncalls < MaxCalls
    /\ \E message \in Messages, levelArg \in LevelArgs :
         \E now \in Readings(clock) : CallAddLog(message, levelArg, now)
    /\ ncalls' = ncalls + 1

FinishSession ==
    /\ ncalls < MaxCalls
    /\ \E t1 \in Readings(clock) : \E t2 \in Readings(t1) : CallFinish(t1, t2)
    /\ ncalls' = ncalls + 1

Connect == \E v \in Viewers : handle_connect(v)

Disconnect == \E v \in Viewers : handle_disconnect(v)

GetStatus == CallGetStatus

Next ==
    \/ StartSession
    \/ UpdateStatus
    \/ AddLog
    \/ FinishSession
    \/ Connect
    \/ Disconnect
    \/ GetStatus

Spec == Init /\ [][Next]_vars

\* ----------------------------------------------- the log-path specification
\* A producer that restarts sessions and writes numbered log lines, as the
\* demo drivers do, until MaxLines entries were built since the last reset.
\* The level is left to its default until the buffer is full and is chosen
\* freely from then on.  The clock stands still.
LogsStart ==
    /\ CallStart("demo", 3, 500, 16, clock, clock, clock)
    /\ UNCHANGED ncalls

LogsAddLine ==
    /\ Len(appended) < MaxLines
    /\ \E levelArg \in (IF Len(appended) >= LogCap THEN LevelArgs ELSE {NoLevel}) :
          CallAddLog("line " \o ToString(Len(appended) + 1), levelArg, clock)
    /\ UNCHANGED ncalls

NextLogs ==
    \/ LogsStart
    \/ LogsAddLine
    \/ Connect
    \/ Disconnect

SpecLogs == Init /\ [][NextLogs]_vars

\* -------------------------------------------- the metric-path specification
\* A producer that runs one session after another: start, metric updates
\* whose k-th loss is k and whose k-th learning rate is k, then finish.  A
\* session is restarted only while it is short; the clock stands still.
SeriesLen(name) == Len(training_data.metrics_history[name])

MetricsStart ==
    /\ SeriesLen("loss") <= MaxRestartAt
    /\ SeriesLen("learning_rate") <= MaxRestartAt
    /\ CallStart("demo", 3, 500, 16, clock, clock, clock)
    /\ UNCHANGED ncalls

MetricsUpdate ==
    /\ training_data.status # "completed"
    /\ \E kwargs \in { [loss |-> Len(supplied) + 1],
                       [learning_rate |-> SeriesLen("learning_rate") + 1],
                       [loss |-> Len(supplied) + 1,
                        learning_rate |-> SeriesLen("learning_rate") + 1] } :
          /\ ("loss" \in DOMAIN kwargs => Len(supplied) < MaxPoints)
          /\ ("learning_rate" \in DOMAIN kwargs => SeriesLen("learning_rate") < MaxPoints)
          /\ CallUpdate("training", kwargs, clock, clock)
    /\ UNCHANGED ncalls

MetricsFinish ==
    /\ training_data.status # "completed"
    /\ CallFinish(clock, clock)
    /\ UNCHANGED ncalls

NextMetrics ==
    \/ MetricsStart
    \/ MetricsUpdate
    \/ MetricsFinish

SpecMetrics == Init /\ [][NextMetrics]_vars

\* -------------------------------------------- the series specification
\* A producer whose clock ticks once per metric update and that supplies the
\* time of the update as the value: the update made at time k carries loss k
\* or learning rate k.  A session is restarted only early on and is given
\* MaxRates learning rates.
SeriesStart ==
    /\ clock <= MaxRestartAt
    /\ CallStart("demo", 3, 500, 16, clock, clock, clock)
    /\ UNCHANGED ncalls

SeriesUpdate ==
    /\ clock < MaxTicks
    /\ \E kwargs \in { [loss |-> clock + 1], [learning_rate |-> clock + 1] } :
          /\ ("loss" \in DOMAIN kwargs => Len(supplied) < MaxPoints)
          /\ ("learning_rate" \in DOMAIN kwargs => SeriesLen("learning_rate") < MaxRates)
          /\ CallUpdate("training", kwargs, clock + 1, clock + 1)
    /\ UNCHANGED ncalls

NextSeries ==
    \/ SeriesStart
    \/ SeriesUpdate

SpecSeries == Init /\ [][NextSeries]_vars

\* ------------------------------------------ the buffer-keyword specification
\* A producer that also passes keywords named after the two buffers of the
\* dictionary: an empty list for 'logs', a dictionary of series with one loss
\* point and no timestamp for 'metrics_history'.
BufferKwargs ==
    { [logs |-> << >>],
      [metrics_history |-> [loss |-> <<1>>, learning_rate |-> << >>, timestamps |-> << >>]] }

UpdateBuffers ==
    /\ ncalls < MaxCalls
    /\ \E kwargs \in BufferKwargs : \E t \in Readings(clock) :
          CallUpdate("training", kwargs, t, t)
    /\ ncalls' = ncalls + 1

NextKeywords ==
    \/ StartSession
    \/ AddLog
    \/ UpdateStatus
    \/ UpdateBuffers

SpecKeywords == Init /\ [][NextKeywords]_vars

\* ------------------------------------------ the ill-typed-call specification
\* A producer that also passes values that are no numbers for numeric fields:
\* a string for loss, None for current_step.
None == "None"

\* (status, kwargs, the keywords whose value has the wrong type)
WrongTypeArgs ==
    { <<"training", [loss |-> "abc"], {"loss"}>>,
      <<"training", [current_step |-> None], {"current_step"}>>,
      <<"training", [current_epoch |-> 1, learning_rate |-> "abc"], {"learning_rate"}>> }

\* monitor.update_training_status(status, **kwargs) with such a value: the
\* same statements run, none of which looks at the type of a value.
CallUpdateWrongType(status, kwargs, wrong, t1, t2) ==
    LET m == update_training_status(Entry, status, kwargs, t1, t2, viewers)
    IN  /\ training_data' = m.data
        /\ emitted' = m.out
        /\ clock' = t2
        /\ call' = [op |-> "update_training_status",
                    args |-> [status |-> status, kwargs |-> kwargs, wrong |-> wrong],
                    error |-> "none"]
        /\ supplied' = IF "loss" \in DOMAIN kwargs
                       THEN Append(supplied, kwargs.loss) ELSE supplied
        /\ updated' = left_by_update(m.data)
        /\ UNCHANGED <<viewers, appended>>
        /\ Sequential

UpdateWrongType ==
    /\ ncalls < MaxCalls
    /\ \E a \in WrongTypeArgs :
         \E t1 \in Readings(clock) : \E t2 \in Readings(t1) :
            /\ ("loss" \notin DOMAIN a[2] => t2 = t1)
            /\ CallUpdateWrongType(a[1], a[2], a[3], t1, t2)
    /\ ncalls' = ncalls + 1

NextTypes ==
    \/ StartSession
    \/ UpdateStatus
    \/ UpdateWrongType
    \/ Connect
    \/ GetStatus

SpecTypes == Init /\ [][NextTypes]_vars

\* ------------------------------------------------- the threads specification
\* The monitor is called from several threads and takes no lock: a thread
\* runs its call one statement at a time and the other threads, and the
\* server's request handlers, run in between.  A statement of the source is
\* one step; the clock stands still.
Stmt(kind, arg) == [kind |-> kind, arg |-> arg]

\* The statements of update_training_status(status, **kwargs); keys are the
\* keywords in the order of the call.
stmts_update_training_status(status, kwargs, keys) ==
    << Stmt("status", status) >>
    \o [i \in 1..Len(keys) |-> Stmt("field", keys[i])]
    \o << Stmt("last_update", "") >>
    \o (IF "loss" \in DOMAIN kwargs
        THEN << Stmt("loss.append", ""), Stmt("timestamps.append", ""), Stmt("len(loss)", ""),
                Stmt("loss.pop", ""), Stmt("timestamps.pop", "") >>
        ELSE << >>)
    \o (IF "learning_rate" \in DOMAIN kwargs
        THEN << Stmt("learning_rate.append", "") >> ELSE << >>)
    \o << Stmt("emit status_update", "") >>

\* The statements of add_log(message).
stmts_add_log(message) ==
    << Stmt("logs.append", message), Stmt("len(logs)", ""), Stmt("logs.pop", ""),
       Stmt("emit log_update", message) >>

\* The session the threads start.
DemoSession == [model_name |-> "demo", total_epochs |-> 3, dataset_size |-> 500, batch_size |-> 16]

\* The statements of start_training_session(**DemoSession).
stmts_start_training_session ==
    << Stmt("dict.update", "") >>
    \o stmts_add_log(start_message(DemoSession.model_name))
    \o stmts_add_log(totals_message(DemoSession.total_epochs, DemoSession.dataset_size,
                                    DemoSession.batch_size))

\* The statements of finish_training_session().
stmts_finish_training_session ==
    stmts_update_training_status("completed", NoKwargs, << >>) \o stmts_add_log(finish_message)

\* The calls a thread makes.
ThreadCalls ==
    { [op |-> "start_training_session", status |-> "", kwargs |-> NoKwargs, keys |-> << >>,
       message |-> ""],
      [op |-> "update_training_status", status |-> "training",
       kwargs |-> [current_step |-> 5, loss |-> 18], keys |-> <<"current_step", "loss">>,
       message |-> ""],
      [op |-> "add_log", status |-> "", kwargs |-> NoKwargs, keys |-> << >>,
       message |-> "hello"],
      [op |-> "finish_training_session", status |-> "", kwargs |-> NoKwargs, keys |-> << >>,
       message |-> ""] }

stmts_of(c) ==
    CASE c.op = "start_training_session"  -> stmts_start_training_session
      [] c.op = "update_training_status"  -> stmts_update_training_status(c.status, c.kwargs, c.keys)
      [] c.op = "add_log"                 -> stmts_add_log(c.message)
      [] c.op = "finish_training_session" -> stmts_finish_training_session

\* The dictionary after the statement s of the call c has run on d.
exec_data(s, c, d) ==
    CASE s.kind = "status" -> [d EXCEPT !.status = s.arg]
      [] s.kind = "field" -> update_fields(d, [k \in {s.arg} |-> c.kwargs[k]])
      [] s.kind = "last_update" -> dict_set(d, "last_update", clock)
      [] s.kind = "loss.append" -> [d EXCEPT !.metrics_history.loss = Append(@, c.kwargs.loss)]
      [] s.kind = "timestamps.append" -> [d EXCEPT !.metrics_history.timestamps = Append(@, clock)]
      [] s.kind = "loss.pop" -> [d EXCEPT !.metrics_history.loss = Tail(@)]
      [] s.kind = "timestamps.pop" -> [d EXCEPT !.metrics_history.timestamps = Tail(@)]
      [] s.kind = "learning_rate.append" ->
            [d EXCEPT !.metrics_history.learning_rate = Append(@, c.kwargs.learning_rate)]
      [] s.kind = "dict.update" ->
            dict_update(d, session_fields(DemoSession.model_name, DemoSession.total_epochs,
                                          DemoSession.dataset_size, DemoSession.batch_size,
                                          clock))
      [] s.kind = "logs.append" -> [d EXCEPT !.logs = Append(@, log_entry(s.arg, "info", clock))]
      [] s.kind = "logs.pop" -> [d EXCEPT !.logs = Tail(@)]
      [] OTHER -> d

\* pop(0) of an empty list raises.
exec_error(s, d) ==
    CASE s.kind = "loss.pop" /\ d.metrics_history.loss = << >> -> "IndexError"
      [] s.kind = "timestamps.pop" /\ d.metrics_history.timestamps = << >> -> "IndexError"
      [] s.kind = "logs.pop" /\ d.logs = << >> -> "IndexError"
      [] OTHER -> "none"

\* The events the statement emits.
exec_out(s, d, conns) ==
    CASE s.kind = "emit status_update" -> socketio_emit(<< >>, "status_update", d, conns)
      [] s.kind = "emit log_update" ->
            socketio_emit(<< >>, "log_update", log_entry(s.arg, "info", clock), conns)
      [] OTHER -> << >>

\* The statements left once s has run: a cap test that fails skips its pops.
exec_todo(s, d, todo) ==
    CASE s.kind = "len(loss)" /\ ~(Len(d.metrics_history.loss) > MetricCap) ->
            SubSeq(todo, 4, Len(todo))
      [] s.kind = "len(logs)" /\ ~(Len(d.logs) > LogCap) -> SubSeq(todo, 3, Len(todo))
      [] OTHER -> Tail(todo)

InCall(t) == threads[t].op # "idle"
Quiescent == \A t \in Threads : ~InCall(t)

\* Thread t enters the call c.  `before` is the dictionary it finds and
\* `alone` tells that no other thread was in a call since.
ThreadBegin(t, c) ==
    /\ ~InCall(t)
    /\ ncalls < MaxThreadCalls
    /\ ncalls' = ncalls + 1
    /\ threads' = [u \in Threads |->
                      IF u = t
                      THEN [op |-> c.op, call |-> c, todo |-> stmts_of(c),
                            before |-> training_data, alone |-> Quiescent]
                      ELSE IF InCall(u) THEN [threads[u] EXCEPT !.alone = FALSE]
                      ELSE threads[u]]
    /\ overlap' = IF Quiescent THEN [base |-> training_data, calls |-> << c >>]
                  ELSE [overlap EXCEPT !.calls = Append(@, c)]
    /\ call' = [op |-> "enter", args |-> [thread |-> t, op |-> c.op], error |-> "none"]
    /\ emitted' = << >>
    /\ response' = NoResponse
    /\ UNCHANGED <<training_data, viewers, clock, appended, supplied, updated, views>>

\* Thread t runs the next statement of its call and returns after the last.
ThreadStatement(t) ==
    /\ InCall(t)
    /\ LET f == threads[t]
           s == Head(f.todo)
           err == exec_error(s, training_data)
           left == exec_todo(s, training_data, f.todo)
       IN  /\ training_data' = IF err = "none" THEN exec_data(s, f.call, training_data)
                               ELSE training_data
           /\ emitted' = exec_out(s, training_data, viewers)
           /\ threads' = [threads EXCEPT ![t] = IF err # "none" \/ left = << >>
                                                THEN Idle ELSE [f EXCEPT !.todo = left]]
           /\ call' = [op |-> "statement",
                       args |-> [thread |-> t, op |-> f.op, kind |-> s.kind], error |-> err]
    /\ response' = NoResponse
    /\ UNCHANGED <<viewers, clock, appended, supplied, updated, ncalls, overlap>>

ThreadStep(t) == ThreadStatement(t) /\ UNCHANGED views

Begin == \E t \in Threads, c \in ThreadCalls : ThreadBegin(t, c)

Step == \E t \in Threads : ThreadStep(t)

NextThreads ==
    \/ Begin
    \/ Step
    \/ GetStatus
    \/ Connect

SpecThreads == Init /\ [][NextThreads]_vars

\* The dictionary after the call c has run on d from its first statement to
\* its last with nothing in between.
applied(c, d) ==
    LET m == [data |-> d, out |-> << >>]
    IN  CASE c.op = "start_training_session" ->
                start_training_session(m, DemoSession.model_name, DemoSession.total_epochs,
                                       DemoSession.dataset_size, DemoSession.batch_size,
                                       clock, clock, clock, viewers).data
          [] c.op = "update_training_status" ->
                update_training_status(m, c.status, c.kwargs, clock, clock, viewers).data
          [] c.op = "add_log" -> add_log(m, c.message, "info", clock, viewers).data
          [] c.op = "finish_training_session" ->
                finish_training_session(m, clock, clock, viewers).data

\* -------------------------------------------------- the attach specification
\* The threads specification with the viewers' side of the channel: a viewer
\* keeps the dictionary it is sent on connect, replaces it by the payload of
\* each status_update it is sent and appends the entry of each log_update.
apply_event(state, ev) ==
    IF ev.event = "status_update" THEN ev.data
    ELSE [state EXCEPT !.logs = Append(@, ev.data)]

\* The views once the events `out` were delivered to their recipients.
RECURSIVE delivered(_, _)
delivered(vs, out) ==
    IF out = << >> THEN vs
    ELSE delivered([v \in Viewers |->
                       IF vs[v].attached /\ v \in Head(out).to
                       THEN [vs[v] EXCEPT !.state = apply_event(@, Head(out))]
                       ELSE vs[v]],
                   Tail(out))

\* @socketio.on('connect') with the viewer's side: `during` tells that a
\* producer call was in progress.
AttachViewer(v) ==
    /\ v \notin viewers
    /\ viewers' = viewers \cup {v}
    /\ emitted' = socketio_emit(<<>>, "status_update", training_data, {v})
    /\ call' = [op |-> "connect", args |-> [viewer |-> v], error |-> "none"]
    /\ views' = [views EXCEPT ![v] = [attached |-> TRUE, during |-> ~Quiescent,
                                       state |-> training_data]]
    /\ response' = NoResponse
    /\ UNCHANGED <<training_data, clock, appended, supplied, updated, ncalls, threads, overlap>>

Attach == \E v \in Viewers : AttachViewer(v)

\* A statement of a thread, and the delivery of what it emits.
Deliver == \E t \in Threads : ThreadStatement(t) /\ views' = delivered(views, emitted')

Enter == \E t \in Threads, c \in ThreadCalls : ThreadBegin(t, c)

NextAttach ==
    \/ Enter
    \/ Deliver
    \/ Attach

SpecAttach == Init /\ [][NextAttach]_vars

\* ------------------------------------------------- the demo specification
\* The two drivers of the repository, demo_training_session and the thread
\* of run_training_with_monitor, as the list of calls each makes.  A loss is
\* held in thousandths and a learning rate in billionths; the random term of
\* demo_training_session's loss is left out; the clock stands still.  The
\* Arabic parts of the integrated demo's log lines are transliterated.
call_start(model_name, total_epochs, dataset_size, batch_size) ==
    [op |-> "start_training_session", model_name |-> model_name, total_epochs |-> total_epochs,
     dataset_size |-> dataset_size, batch_size |-> batch_size]
call_update(status, kwargs) == [op |-> "update_training_status", status |-> status, kwargs |-> kwargs]
call_add_log(message) == [op |-> "add_log", message |-> message]
call_finish == [op |-> "finish_training_session"]

Max(a, b) == IF a >= b THEN a ELSE b

\* rate * (percent / 100) ** k, truncated at each factor
RECURSIVE decayed(_, _, _)
decayed(rate, percent, k) ==
    IF k = 0 THEN rate ELSE (decayed(rate, percent, k - 1) * percent) \div 100

\* f"{loss:.4f}" of a loss below 10
fmt4(loss) ==
    LET frac == loss % 1000
    IN  ToString(loss \div 1000) \o "."
        \o (IF frac < 10 THEN "00" ELSE IF frac < 100 THEN "0" ELSE "")
        \o ToString(frac) \o "0"

\* demo_training_session, for step in range(32) from step on in epoch
RECURSIVE demo_steps(_, _)
demo_steps(epoch, step) ==
    IF step = 32 THEN << >>
    ELSE LET current_step == (epoch - 1) * 32 + step + 1
             loss == Max(100, 2000 - current_step)
             learning_rate == decayed(1000000, 95, current_step \div 100)
         IN  << call_update("training",
                            [current_step |-> current_step, loss |-> loss,
                             learning_rate |-> learning_rate,
                             elapsed_time |-> current_step * 2,
                             estimated_remaining |-> (160 - current_step) * 2]) >>
             \o (IF step % 5 = 0
                 THEN << call_add_log("Epoch " \o ToString(epoch) \o ", Step "
                                      \o ToString(step + 1) \o ": Loss = " \o fmt4(loss)) >>
                 ELSE << >>)
             \o demo_steps(epoch, step + 1)

\* demo_training_session, for epoch in range(1, 6) from epoch on
RECURSIVE demo_epochs(_)
demo_epochs(epoch) ==
    IF epoch = 6 THEN << >>
    ELSE << call_add_log("Starting epoch " \o ToString(epoch) \o "/5"),
            call_update("training", [current_epoch |-> epoch,
                                     current_step |-> (epoch - 1) * 32]) >>
         \o demo_steps(epoch, 0)
         \o << call_add_log("Completed epoch " \o ToString(epoch) \o "/5") >>
         \o demo_epochs(epoch + 1)

demo_completed_line == "Training completed successfully!"

\* Mutant: the driver stops before it calls finish_training_session.
demo_training_session_unfinished ==
    << call_start("arabic-llama-demo", 5, 1000, 32) >>
    \o demo_epochs(1)
    \o << call_add_log(demo_completed_line) >>

\* The calls of demo_training_session.
demo_training_session ==
    << call_start("arabic-llama-demo", 5, 1000, 32) >>
    \o demo_epochs(1)
    \o << call_add_log(demo_completed_line), call_finish >>

\* start_monitor_thread, for step in range(32) from step on in epoch
RECURSIVE integrated_steps(_, _)
integrated_steps(epoch, step) ==
    IF step = 32 THEN << >>
    ELSE LET current_step == (epoch - 1) * 32 + step + 1
             loss == Max(200, 1500 - current_step * 10)
             learning_rate == decayed(1000000, 98, current_step \div 10)
         IN  << call_update("training",
                            [current_epoch |-> epoch, current_step |-> current_step,
                             loss |-> loss, learning_rate |-> learning_rate,
                             elapsed_time |-> current_step * 3]) >>
             \o (IF step % 8 = 0
                 THEN << call_add_log("Epoch " \o ToString(epoch) \o ", Step "
                                      \o ToString(step + 1) \o ": Loss = " \o fmt4(loss)) >>
                 ELSE << >>)
             \o integrated_steps(epoch, step + 1)

\* start_monitor_thread, for epoch in range(1, 4) from epoch on
RECURSIVE integrated_epochs(_)
integrated_epochs(epoch) ==
    IF epoch = 4 THEN << >>
    ELSE << call_add_log("Starting epoch " \o ToString(epoch) \o "/3 - bad al-asr "
                         \o ToString(epoch) \o "/3") >>
         \o integrated_steps(epoch, 0)
         \o << call_add_log("Completed epoch " \o ToString(epoch) \o "/3 - iktamala al-asr "
                            \o ToString(epoch) \o "/3") >>
         \o integrated_epochs(epoch + 1)

integrated_completed_line == "Training completed successfully! - iktamala at-tadrib bi-najah!"

\* The calls of the thread of run_training_with_monitor.
start_monitor_thread ==
    << call_start("arabic-llama-custom", 3, 500, 16),
       call_add_log("Starting Arabic Llama fine-tuning process"),
       call_add_log("tamma bad amaliyat ad-dabt ad-daqiq li-lama al-arabi") >>
    \o integrated_epochs(1)
    \o << call_add_log(integrated_completed_line), call_finish >>

\* The driver makes the call c.
Run(c) ==
    CASE c.op = "start_training_session" ->
            CallStart(c.model_name, c.total_epochs, c.dataset_size, c.batch_size,
                      clock, clock, clock)
      [] c.op = "update_training_status" -> CallUpdate(c.status, c.kwargs, clock, clock)
      [] c.op = "add_log" -> CallAddLog(c.message, NoLevel, clock)
      [] c.op = "finish_training_session" -> CallFinish(clock, clock)

\* A driver makes its next call; ncalls tells how many it has made, and the
\* model name which driver runs.
Drive(calls) ==
    /\ ncalls < Len(calls)
    /\ (ncalls > 0 => training_data.model_name = calls[1].model_name)
    /\ Run(calls[ncalls + 1])
    /\ ncalls' = ncalls + 1

DemoTrainingSession == Drive(demo_training_session)

IntegratedDemo == Drive(start_monitor_thread)

NextDemo ==
    \/ DemoTrainingSession
    \/ IntegratedDemo

SpecDemo == Init /\ [][NextDemo]_vars

\* A driver that is not stopped goes on to its next call.
SpecDemoLive == SpecDemo /\ WF_vars(NextDemo)

\* The driver has made its last call.
DriverDone ==
    \/ training_data.model_name = "arabic-llama-demo" /\ ncalls = Len(demo_training_session)
    \/ training_data.model_name = "arabic-llama-custom" /\ ncalls = Len(start_monitor_thread)

\* ================================================================== claims
Logs == training_data.logs
History == training_data.metrics_history
Returned(op) == call.op = op /\ call.error = "none"
EmptySeries == [loss |-> <<>>, learning_rate |-> <<>>, timestamps |-> <<>>]

\* C1 (SpecLogs): once more than 100 entries were appended by add_log since
\* the last reset of the log buffer, the buffer holds exactly 100 entries:
\* the 100 appended last, in the order of their arrival.
C1_BoundedLogHistory ==
    Len(appended) > 100 =>
        /\ Len(Logs) = 100
        /\ Logs = SubSeq(appended, Len(appended) - 99, Len(appended))

C1_Witness ==
    /\ Returned("add_log")
    /\ Len(appended) = 102
    /\ Logs[100].message = "line 102"

\* C2 (SpecMetrics): after any sequence of producer calls each history buffer
\* (logs, loss, learning_rate, timestamps) holds at most 100 elements.
C2_BuffersBounded ==
    /\ Len(Logs) <= 100
    /\ Len(History.loss) <= 100
    /\ Len(History.learning_rate) <= 100
    /\ Len(History.timestamps) <= 100

\* C3, as claimed: right after start_training_session returns, the log
\* buffer and the three metric series are empty.
C3_AllEmptyAfterStart ==
    Returned("start_training_session") =>
        /\ Logs = <<>>
        /\ History = EmptySeries

\* C3, amended: right after start_training_session returns, from any prior
\* state, the three metric series are empty and the log buffer holds no prior
\* entry: it holds exactly the two lines start_training_session itself logs.
C3_ResetAfterStart ==
    Returned("start_training_session") =>
        /\ History = EmptySeries
        /\ Len(Logs) = 2
        /\ Logs[1].message = start_message(call.args.model_name)
        /\ Logs[2].message = totals_message(call.args.total_epochs,
                                 call.args.dataset_size, call.args.batch_size)

\* The session was started after an update that supplied loss and learning
\* rate (the scalars survive the reset) and after a finish.
C3_Witness ==
    /\ Returned("start_training_session")
    /\ training_data.loss = 18
    /\ training_data.learning_rate = 1
    /\ updated.valid /\ updated.status = "completed"

\* C4 (Spec): start_training_session sets total_steps to
\* floor(dataset_size / batch_size) * total_epochs (93 for 500, 16, 3), and
\* add_log, finish_training_session and update_training_status calls that do
\* not name total_steps leave total_steps as it is.
C4_StartSetsTotalSteps ==
    Returned("start_training_session") =>
        LET a == call.args
        IN  /\ \E q \in 0..a.dataset_size :
                 /\ q * a.batch_size <= a.dataset_size
                 /\ a.dataset_size < (q + 1) * a.batch_size
                 /\ training_data.total_steps = q * a.total_epochs
            /\ (a.dataset_size = 500 /\ a.batch_size = 16 /\ a.total_epochs = 3
                    => training_data.total_steps = 93)

C4_TotalStepsKept ==
    (\/ call'.op \in {"add_log", "finish_training_session"}
     \/ /\ call'.op = "update_training_status"
        /\ "total_steps" \notin DOMAIN call'.args.kwargs)
    => training_data'.total_steps = training_data.total_steps

\* C4: in every state reached by a start_training_session call total_steps is
\* floor(dataset_size / batch_size) * total_epochs, and every step of a call
\* that does not name total_steps keeps it.
C4_TotalSteps == [](C4_StartSetsTotalSteps) /\ [][C4_TotalStepsKept]_vars

C4_Witness ==
    /\ Returned("update_training_status")
    /\ "loss" \in DOMAIN call.args.kwargs
    /\ training_data.dataset_size = 500
    /\ training_data.total_steps = 93

\* The one event a connecting viewer v is sent: the dictionary, to v alone.
ConnectSnapshot ==
    /\ Len(emitted) = 1
    /\ emitted[1].event = "status_update"
    /\ emitted[1].to = {call.args.viewer}
    /\ DOMAIN InitialData \subseteq DOMAIN emitted[1].data

CarriesUpdated(data) ==
    /\ data.status = updated.status
    /\ data.current_epoch = updated.current_epoch
    /\ data.current_step = updated.current_step

\* C5, as claimed: a connecting viewer is sent one status_update that carries
\* every snapshot field and whose status, current_epoch and current_step are
\* those left by the most recent update_training_status call.
C5_SnapshotOfLastUpdate ==
    (Returned("connect") /\ updated.valid) =>
        /\ ConnectSnapshot
        /\ CarriesUpdated(emitted[1].data)

\* C5, amended: a connecting viewer is sent one status_update that carries
\* every field of the dictionary as it is at the connect; its status,
\* current_epoch and current_step are those left by the most recent
\* update_training_status call unless start_training_session has run since.
C5_SnapshotOnConnect ==
    Returned("connect") =>
        /\ ConnectSnapshot
        /\ emitted[1].data = training_data
        /\ (updated.valid /\ ~updated.stale => CarriesUpdated(emitted[1].data))

C5_Witness ==
    /\ Returned("connect")
    /\ updated.valid /\ ~updated.stale
    /\ updated.status = "training"
    /\ updated.current_epoch = 1
    /\ updated.current_step = 5
    /\ Len(Logs) > 0

\* C6 (Spec): an update_training_status call emits exactly one status_update,
\* to every viewer attached, and its payload is the dictionary as the call
\* leaves it: the status, the recognised fields, last_update and the history
\* points of the call are in it.
C6_UpdateBroadcasts ==
    Returned("update_training_status") =>
        LET kwargs == call.args.kwargs
        IN  /\ Len(emitted) = 1
            /\ emitted[1].event = "status_update"
            /\ emitted[1].to = viewers
            /\ emitted[1].data = training_data
            /\ emitted[1].data.status = call.args.status
            /\ "last_update" \in DOMAIN emitted[1].data
            /\ \A k \in DOMAIN kwargs \cap DOMAIN InitialData :
                   emitted[1].data[k] = kwargs[k]
            /\ ("loss" \in DOMAIN kwargs =>
                   LET series == emitted[1].data.metrics_history.loss
                   IN  Len(series) > 0 /\ series[Len(series)] = kwargs.loss)
            /\ ("learning_rate" \in DOMAIN kwargs =>
                   LET series == emitted[1].data.metrics_history.learning_rate
                   IN  Len(series) > 0 /\ series[Len(series)] = kwargs.learning_rate)

C6_Witness ==
    /\ Returned("update_training_status")
    /\ viewers = Viewers
    /\ "loss" \in DOMAIN call.args.kwargs
    /\ "learning_rate" \in DOMAIN call.args.kwargs
    /\ Len(History.loss) = 2

\* C7 (SpecLogs): an add_log call emits exactly one log_update, to every
\* viewer attached; its payload is the entry {timestamp, level, message} just
\* appended, also when the append evicted the oldest entry, and the level is
\* 'info' when the call gives none.
C7_LogBroadcasts ==
    Returned("add_log") =>
        /\ Len(emitted) = 1
        /\ emitted[1].event = "log_update"
        /\ emitted[1].to = viewers
        /\ DOMAIN emitted[1].data = {"timestamp", "level", "message"}
        /\ emitted[1].data = Logs[Len(Logs)]
        /\ emitted[1].data.message = call.args.message
        /\ emitted[1].data.level =
               (IF "level" \in DOMAIN call.args.level
                THEN call.args.level.level ELSE "info")

\* The call gave no level and its append evicted the oldest entry.
C7_Witness ==
    /\ Returned("add_log")
    /\ "level" \notin DOMAIN call.args.level
    /\ viewers = Viewers
    /\ Len(appended) = 101
    /\ Len(Logs) = 100

\* C8 (Spec): after start_training_session returns, every attached viewer has
\* been sent a status_update that carries the reset snapshot.
C8_StartBroadcastsStatus ==
    Returned("start_training_session") =>
        \E i \in DOMAIN emitted :
            /\ emitted[i].event = "status_update"
            /\ emitted[i].to = viewers
            /\ emitted[i].data.status = "starting"
            /\ emitted[i].data.model_name = call.args.model_name
            /\ emitted[i].data.metrics_history = EmptySeries

\* C9 (Spec): an update_training_status call whose keywords are no keys of the
\* dictionary adds none of them, changes no entry but status and last_update,
\* sets last_update to a reading of the clock made during the call and
\* broadcasts the result.
C9_Step ==
    (/\ call'.op = "update_training_status"
     /\ DOMAIN call'.args.kwargs # {}
     /\ DOMAIN call'.args.kwargs \cap DOMAIN training_data = {})
    => /\ call'.error = "none"
       /\ DOMAIN training_data' = DOMAIN training_data \cup {"last_update"}
       /\ \A k \in DOMAIN training_data \ {"status", "last_update"} :
              training_data'[k] = training_data[k]
       /\ training_data'.status = call'.args.status
       /\ training_data'.last_update \in clock..clock'
       /\ Len(emitted') = 1
       /\ emitted'[1] = [event |-> "status_update", data |-> training_data',
                         to |-> viewers]

\* C9: every step of such a call, from every reachable state, is as described.
C9_LenientFields == [][C9_Step]_vars

\* The call came in a state with logs, metric points and a viewer.
C9_Witness ==
    /\ Returned("update_training_status")
    /\ "bogusField" \in DOMAIN call.args.kwargs
    /\ training_data.status = "training"
    /\ Len(Logs) = 2
    /\ Len(History.loss) = 1
    /\ viewers # {}

\* C10 (SpecMetrics): when finish_training_session returns from a session
\* made of start_training_session and update_training_status calls of which
\* k <= 100 supplied loss, status is 'completed', the loss history holds the
\* k supplied losses in order and the last log line is
\* "Training session completed!".
C10_SessionResult ==
    (/\ Returned("finish_training_session")
     /\ "start_time" \in DOMAIN training_data
     /\ Len(supplied) <= 100)
    => /\ training_data.status = "completed"
       /\ History.loss = supplied
       /\ Len(Logs) > 0
       /\ Logs[Len(Logs)].message = "Training session completed!"

C10_Witness ==
    /\ Returned("finish_training_session")
    /\ "start_time" \in DOMAIN training_data
    /\ Len(supplied) = 100
    /\ History.loss[100] = 100


\* C11 (Spec): from every state a finish_training_session call leaves the
\* dictionary and the events that update_training_status('completed')
\* followed by add_log("Training session completed!") with level 'info'
\* leave: a status_update, then a log_update; only status, last_update and
\* the log buffer change, the metric series do not.
C11_Step ==
    call'.op = "finish_training_session" =>
        LET t1 == training_data'.last_update
            t2 == clock'
            u  == update_training_status(Entry, "completed", NoKwargs, t1, t1, viewers)
            a  == add_log([data |-> u.data, out |-> <<>>],
                          "Training session completed!", "info", t2, viewers)
        IN  /\ call'.error = "none"
            /\ training_data' = a.data
            /\ emitted' = u.out \o a.out
            /\ Len(emitted') = 2
            /\ emitted'[1].event = "status_update"
            /\ emitted'[1].data.status = "completed"
            /\ emitted'[2].event = "log_update"
            /\ emitted'[2].data.level = "info"
            /\ training_data'.status = "completed"
            /\ training_data'.metrics_history = training_data.metrics_history
            /\ \A k \in DOMAIN training_data \ {"status", "last_update", "logs"} :
                   training_data'[k] = training_data[k]

C11_FinishIsUpdateThenLog == [][C11_Step]_vars

\* The call came mid-session, with metric points and both viewers attached.
C11_Witness ==
    /\ Returned("finish_training_session")
    /\ Len(History.loss) = 1
    /\ Len(Logs) = 3
    /\ viewers = Viewers

\* C12 (Spec): an add_log call changes the log buffer and nothing else:
\* last_update, status, every other entry of the dictionary and the three
\* metric series are as before, and no status_update is emitted.
C12_Step ==
    call'.op = "add_log" =>
        /\ DOMAIN training_data' = DOMAIN training_data
        /\ \A k \in DOMAIN training_data \ {"logs"} :
               training_data'[k] = training_data[k]
        /\ training_data'.logs # training_data.logs
        /\ \A i \in DOMAIN emitted' : emitted'[i].event # "status_update"

C12_LogPathOnly == [][C12_Step]_vars

\* The clock has moved on since the update that stamped last_update.
C12_Witness ==
    /\ Returned("add_log")
    /\ "last_update" \in DOMAIN training_data
    /\ training_data.last_update < clock
    /\ Len(History.loss) = 1

\* The place of a status in the lifecycle idle -> starting -> training ->
\* completed / failed.
LifecycleRank(status) ==
    CASE status = "idle" -> 0
      [] status = "starting" -> 1
      [] status = "training" -> 2
      [] status \in {"completed", "failed"} -> 3

\* C13 (Spec): over any sequence of producer calls status never moves back
\* in the lifecycle order, except for the reset to 'starting' that
\* start_training_session makes.
C13_Step ==
    \/ LifecycleRank(training_data'.status) >= LifecycleRank(training_data.status)
    \/ /\ call'.op = "start_training_session"
       /\ training_data'.status = "starting"

C13_StatusMonotonic == [][C13_Step]_vars

\* C14 (Spec): in every state after a session was started,
\* current_epoch <= total_epochs.
C14_EpochWithinTotal ==
    "start_time" \in DOMAIN training_data =>
        training_data.current_epoch <= training_data.total_epochs


\* The four producer calls.
ProducerOps ==
    {"start_training_session", "update_training_status", "add_log", "finish_training_session"}

\* C17: a disconnect raises no error and changes neither the store nor the
\* set of the other attached viewers, whether or not the viewer was attached;
\* every event a later producer call emits is addressed to all viewers still
\* attached.
C17_Step ==
    /\ call'.op = "disconnect" =>
          /\ call'.error = "none"
          /\ training_data' = training_data
          /\ emitted' = <<>>
          /\ viewers' = viewers \ {call'.args.viewer}
          /\ (~call'.args.attached => viewers' = viewers)
    /\ (call'.op \in ProducerOps /\ call'.error = "none") =>
          /\ viewers' = viewers
          /\ emitted' # <<>>
          /\ \A i \in 1..Len(emitted') :
                /\ emitted'[i].event \in {"status_update", "log_update"}
                /\ emitted'[i].to = viewers

C17_DisconnectIdempotent == [][C17_Step]_vars

\* A viewer that was not attached has been disconnected while another one is.
C17_Witness ==
    /\ Returned("disconnect")
    /\ ~call.args.attached
    /\ viewers # {}
    /\ Len(History.loss) = 1

\* The dictionary of a monitor no producer has called yet.
IdleSnapshot ==
    [status |-> "idle", current_epoch |-> 0, total_epochs |-> 0, current_step |-> 0,
     total_steps |-> 0, loss |-> 0, learning_rate |-> 0, elapsed_time |-> 0,
     estimated_remaining |-> 0, model_name |-> "", dataset_size |-> 0, batch_size |-> 0,
     logs |-> <<>>,
     metrics_history |-> [loss |-> <<>>, learning_rate |-> <<>>, timestamps |-> <<>>]]

NoProducerCallYet ==
    /\ ~updated.valid
    /\ appended = <<>>
    /\ "start_time" \notin DOMAIN training_data

\* C19: GET /api/status answers with the whole current dictionary in every
\* state, attached viewers or not, and changes nothing; before any producer
\* call it answers with status 'idle', zero numeric fields, an empty model
\* name and empty logs and metric series.
C19_Step ==
    call'.op = "get_status" =>
       /\ call'.error = "none"
       /\ response' = training_data
       /\ DOMAIN InitialData \subseteq DOMAIN response'
       /\ training_data' = training_data
       /\ viewers' = viewers
       /\ emitted' = <<>>
       /\ (NoProducerCallYet => response' = IdleSnapshot)

C19_WitnessIdle ==
    /\ Returned("get_status")
    /\ NoProducerCallYet
    /\ response.status = "idle"


\* C20: an update_training_status call given a value of the wrong type for a
\* numeric field fails with an error, leaves the dictionary as it was and
\* emits nothing.
C20_Step ==
    (call'.op = "update_training_status" /\ "wrong" \in DOMAIN call'.args) =>
       /\ call'.error # "none"
       /\ training_data' = training_data
       /\ emitted' = <<>>

C20_WrongTypeRejected == [][C20_Step]_vars


\* What a viewer has just read: the answer of GET /api/status or the
\* status_update sent on connect.
JustRead == call.op \in {"get_status", "connect"}
Observed == IF call.op = "get_status" THEN response ELSE emitted[1].data

\* C15: a viewer that reads while one producer call is in progress on another
\* thread sees the dictionary either as the call found it or as the whole
\* call leaves it.
C15_ReadsAreAtomic ==
    \A t \in Threads :
       (JustRead /\ InCall(t) /\ threads[t].alone) =>
           \/ Observed = threads[t].before
           \/ Observed = applied(threads[t].call, threads[t].before)

\* C16: once two producer calls that ran concurrently have both returned,
\* the dictionary is the one some serial order of the two leaves, and the
\* loss series is as long as the timestamps series.
C16_Serializable ==
    (Quiescent /\ Len(overlap.calls) = 2) =>
        /\ \/ training_data = applied(overlap.calls[2], applied(overlap.calls[1], overlap.base))
           \/ training_data = applied(overlap.calls[1], applied(overlap.calls[2], overlap.base))
        /\ Len(History.loss) = Len(History.timestamps)


\* The events that come from a viewer.
ViewerOps == {"connect", "disconnect", "get_status"}

\* C21: a connect, a disconnect and a GET /api/status leave every field of
\* training_data as it was; a step that changes the dictionary is one of the
\* four producer calls.
C21_Step ==
    /\ call'.op \in ViewerOps => training_data' = training_data
    /\ training_data' # training_data => call'.op \in ProducerOps

C21_ViewersNeverWrite == [][C21_Step]_vars

\* An attached viewer has left a monitor whose session holds logs and a loss point.
C21_Witness ==
    /\ Returned("disconnect")
    /\ call.args.attached
    /\ Len(Logs) = 2
    /\ Len(History.loss) = 1
    /\ training_data.status = "training"

\* The route has answered, and a viewer has connected, to such a monitor.
C21_WitnessRequest == Returned("get_status") /\ Len(Logs) = 2 /\ viewers # {}
C21_WitnessConnect == Returned("connect") /\ Len(Logs) = 2 /\ Len(History.loss) = 1


\* C22: once no producer call is in progress, a viewer that attached during
\* one holds, from its snapshot and the events sent to it since, the
\* dictionary of the store.
C22_NothingLostOrDoubled ==
    \A v \in Viewers :
       (Quiescent /\ views[v].attached /\ views[v].during) => views[v].state = training_data


\* C23: after a start_training_session, update_training_status or
\* finish_training_session call, last_update is present and not older than
\* the clock was when the call was made.
C23_Step ==
    (call'.op \in {"start_training_session", "update_training_status",
                   "finish_training_session"} /\ call'.error = "none") =>
       /\ "last_update" \in DOMAIN training_data'
       /\ training_data'.last_update >= clock

C23_LastUpdateStamped == [][C23_Step]_vars


\* C24: the loss and timestamps series have equal lengths and timestamps[i]
\* is the time loss[i] arrived, evictions included (in this specification
\* the loss that arrives at time k is k); an update that supplies a learning
\* rate and no loss appends it to the learning_rate series and leaves the
\* other two alone; an update that supplies a loss stores it as the scalar
\* loss and appends the same value, stamped with the time of the call.
C24_Paired ==
    /\ Len(History.loss) = Len(History.timestamps)
    /\ \A i \in 1..Len(History.loss) : History.timestamps[i] = History.loss[i]
    /\ Len(History.loss) <= MetricCap
    /\ (Len(supplied) >= Len(History.loss) =>
          History.loss = SubSeq(supplied, Len(supplied) - Len(History.loss) + 1, Len(supplied)))

C24_Step ==
    (call'.op = "update_training_status" /\ call'.error = "none") =>
       LET kwargs == call'.args.kwargs
       IN  /\ ("loss" \notin DOMAIN kwargs =>
                 /\ History'.loss = History.loss
                 /\ History'.timestamps = History.timestamps)
           /\ ("learning_rate" \in DOMAIN kwargs =>
                 History'.learning_rate = Append(History.learning_rate, kwargs.learning_rate))
           /\ ("learning_rate" \notin DOMAIN kwargs =>
                 History'.learning_rate = History.learning_rate)
           /\ ("loss" \in DOMAIN kwargs =>
                 /\ training_data'.loss = kwargs.loss
                 /\ History'.loss # << >>
                 /\ History'.loss[Len(History'.loss)] = kwargs.loss
                 /\ History'.timestamps[Len(History'.timestamps)] = clock')

C24_SeriesInStep == [](C24_Paired) /\ [][C24_Step]_vars

\* A learning rate alone was supplied after the oldest loss point was evicted.
C24_Witness ==
    /\ Returned("update_training_status")
    /\ DOMAIN call.args.kwargs = {"learning_rate"}
    /\ Len(supplied) = MetricCap + 1
    /\ Len(History.loss) = MetricCap
    /\ History.timestamps[1] > 1
    /\ Len(History.learning_rate) = 1


\* C25: no update_training_status call, whatever its keywords, changes the
\* log buffer, and it changes a metric series only by appending the loss or
\* learning rate it is given.
C25_Step ==
    (call'.op = "update_training_status" /\ call'.error = "none") =>
       LET kwargs == call'.args.kwargs
       IN  /\ Logs' = Logs
           /\ ("loss" \notin DOMAIN kwargs =>
                 /\ History'.loss = History.loss
                 /\ History'.timestamps = History.timestamps)
           /\ ("learning_rate" \notin DOMAIN kwargs =>
                 History'.learning_rate = History.learning_rate)
           /\ ("loss" \in DOMAIN kwargs =>
                 History'.loss = Append(History.loss, kwargs.loss))
           /\ ("learning_rate" \in DOMAIN kwargs =>
                 History'.learning_rate = Append(History.learning_rate, kwargs.learning_rate))

C25_PathsIndependent == [][C25_Step]_vars


\* C26: start_training_session leaves the same dictionary, up to timestamps,
\* from whatever state it is called in with given arguments, namely the one
\* it leaves on a new monitor: status 'starting', epoch and step 0, the given
\* session fields, and no loss, learning_rate, elapsed_time,
\* estimated_remaining or last_update of an earlier session.
C26_StartForgetsScalars ==
    Returned("start_training_session") =>
        /\ training_data.status = "starting"
        /\ training_data.current_epoch = 0
        /\ training_data.current_step = 0
        /\ training_data.model_name = call.args.model_name
        /\ training_data.total_epochs = call.args.total_epochs
        /\ training_data.dataset_size = call.args.dataset_size
        /\ training_data.batch_size = call.args.batch_size
        /\ training_data.loss = InitialData.loss
        /\ training_data.learning_rate = InitialData.learning_rate
        /\ training_data.elapsed_time = InitialData.elapsed_time
        /\ training_data.estimated_remaining = InitialData.estimated_remaining
        /\ "last_update" \notin DOMAIN training_data


\* C27: start_training_session with batch_size 0 raises ZeroDivisionError,
\* leaves the whole dictionary as it was and emits nothing; with a batch
\* larger than the dataset it succeeds and sets total_steps to 0.
C27_Step ==
    call'.op = "start_training_session" =>
       /\ (call'.args.batch_size = 0 =>
             /\ call'.error = "ZeroDivisionError"
             /\ training_data' = training_data
             /\ emitted' = <<>>)
       /\ (call'.args.batch_size > call'.args.dataset_size =>
             /\ call'.error = "none"
             /\ training_data'.total_steps = 0
             /\ training_data'.status = "starting")
       /\ (call'.args.batch_size # 0 => call'.error = "none")

C27_EmptyBatchRejected == [][C27_Step]_vars

\* The call has failed in the middle of a session that viewers watch.
C27_Witness ==
    /\ call.op = "start_training_session"
    /\ call.error = "ZeroDivisionError"
    /\ training_data.status = "training"
    /\ Len(Logs) = 2
    /\ Len(History.loss) = 1
    /\ viewers # {}

\* The call has succeeded with a batch larger than the dataset.
C27_WitnessLargeBatch ==
    /\ Returned("start_training_session")
    /\ call.args.batch_size > call.args.dataset_size
    /\ training_data.total_steps = 0


\* C28: finish_training_session emits the status_update with status
\* 'completed' first, its payload holding the log buffer without the terminal
\* line, and the log_update of "Training session completed!" second;
\* start_training_session emits the log_update of its "Starting training
\* session for <model>" line, then that of its totals line, and the log
\* buffer holds exactly these two entries when it returns.
C28_Step ==
    /\ call'.op = "finish_training_session" =>
          /\ Len(emitted') = 2
          /\ emitted'[1].event = "status_update"
          /\ emitted'[1].data.status = "completed"
          /\ emitted'[1].data.logs = Logs
          /\ emitted'[2].event = "log_update"
          /\ emitted'[2].data.message = finish_message
          /\ Logs' = keep_logs(Logs, emitted'[2].data)
    /\ (call'.op = "start_training_session" /\ call'.error = "none") =>
          /\ Len(emitted') = 2
          /\ emitted'[1].event = "log_update"
          /\ emitted'[1].data.message = start_message(call'.args.model_name)
          /\ emitted'[2].event = "log_update"
          /\ emitted'[2].data.message =
                totals_message(call'.args.total_epochs, call'.args.dataset_size,
                               call'.args.batch_size)
          /\ Logs' = << emitted'[1].data, emitted'[2].data >>

C28_EmitOrder == [][C28_Step]_vars

\* A session with its two start lines has been finished.
C28_Witness ==
    /\ Returned("finish_training_session")
    /\ Len(emitted) = 2
    /\ Len(emitted[1].data.logs) = 2
    /\ Len(Logs) = 3
    /\ Logs[1].message = start_message("demo")
    /\ Logs[3].message = finish_message


\* C29 (SpecDemo): throughout the sessions driven by demo_training_session
\* and by the thread of run_training_with_monitor, after every
\* update_training_status call current_step is at most total_steps and
\* current_epoch at most total_epochs, and estimated_remaining is never
\* negative.
C29_DemoWithinTotals ==
    Returned("update_training_status") =>
        /\ training_data.current_step <= training_data.total_steps
        /\ training_data.current_epoch <= training_data.total_epochs
        /\ training_data.estimated_remaining >= 0

\* The parts of C29 that the drivers keep: the epoch stays within the total
\* and the remaining time is never negative.
C29_EpochAndRemainingWithin ==
    /\ training_data.current_epoch <= training_data.total_epochs
    /\ training_data.estimated_remaining >= 0



\* C30 (SpecDemoLive): a session driven by demo_training_session or by the
\* thread of run_training_with_monitor terminates: the status changes only
\* from idle to starting, from starting to training and from training to
\* completed, is never 'failed', eventually is 'completed' and stays so; and
\* when the driver has made its last call the last log entry is "Training
\* session completed!", preceded by the driver's own "Training completed
\* successfully!" line.
C30_StatusOrder ==
    { <<"idle", "starting">>, <<"starting", "training">>, <<"training", "completed">> }

C30_Step ==
    training_data'.status # training_data.status =>
        << training_data.status, training_data'.status >> \in C30_StatusOrder

C30_LastLines ==
    DriverDone =>
        /\ training_data.status = "completed"
        /\ Len(Logs) >= 2
        /\ Logs[Len(Logs)].message = finish_message
        /\ Logs[Len(Logs) - 1].message =
              (IF training_data.model_name = "arabic-llama-demo"
               THEN demo_completed_line ELSE integrated_completed_line)

C30_WitnessIntegrated ==
    /\ DriverDone
    /\ Returned("finish_training_session")
    /\ training_data.model_name = "arabic-llama-custom"
    /\ training_data.current_step = 96
    /\ Logs[Len(Logs) - 1].message = integrated_completed_line

====
